---------------------------- MODULE Spec2Model ----------------------------
(***************************************************************************)
(* A model of exito_scraper.py: the run gate, the batch cursor kept in     *)
(* cell A100000, the batch read and write against the worksheet, and the   *)
(* price/seller extraction cascade of _extract_price_vendor.               *)
(*                                                                         *)
(* Text is modelled as a sequence of one-character strings, so that        *)
(* int(), str(), strip(), lower(), startswith() and the two regular        *)
(* expressions are computed character by character.                        *)
(***************************************************************************)
EXTENDS Integers, Sequences, FiniteSets, TLC

(***************************************************************************)
(* Python text primitives                                                  *)
(***************************************************************************)
Digits == {"0", "1", "2", "3", "4", "5", "6", "7", "8", "9"}

DigitVal(c) ==
    CASE c = "0" -> 0 [] c = "1" -> 1 [] c = "2" -> 2 [] c = "3" -> 3
      [] c = "4" -> 4 [] c = "5" -> 5 [] c = "6" -> 6 [] c = "7" -> 7
      [] c = "8" -> 8 [] c = "9" -> 9

DigitChar(d) ==
    CASE d = 0 -> "0" [] d = 1 -> "1" [] d = 2 -> "2" [] d = 3 -> "3"
      [] d = 4 -> "4" [] d = 5 -> "5" [] d = 6 -> "6" [] d = 7 -> "7"
      [] d = 8 -> "8" [] d = 9 -> "9"

\* The white space the sampled texts use (str.strip() removes it at both ends).
Whitespace == {" ", "\t", "\n", "\r"}

RECURSIVE LStrip(_)
LStrip(s) ==
    IF s # <<>> /\ Head(s) \in Whitespace THEN LStrip(Tail(s)) ELSE s

RECURSIVE RStrip(_)
RStrip(s) ==
    IF s # <<>> /\ s[Len(s)] \in Whitespace
    THEN RStrip(SubSeq(s, 1, Len(s) - 1))
    ELSE s

\* str.strip()
Strip(s) == RStrip(LStrip(s))

\* str.lower() / str.upper() on one character: the letters the sampled texts use.
LowerChar(c) ==
    CASE c = "A" -> "a" [] c = "C" -> "c" [] c = "D" -> "d" [] c = "E" -> "e"
      [] c = "I" -> "i" [] c = "L" -> "l" [] c = "N" -> "n" [] c = "O" -> "o"
      [] c = "P" -> "p" [] c = "R" -> "r" [] c = "T" -> "t" [] c = "U" -> "u"
      [] c = "V" -> "v" [] c = "X" -> "x" [] c = "Z" -> "z"
      [] OTHER -> c

UpperChar(c) ==
    CASE c = "a" -> "A" [] c = "c" -> "C" [] c = "d" -> "D" [] c = "e" -> "E"
      [] c = "i" -> "I" [] c = "l" -> "L" [] c = "n" -> "N" [] c = "o" -> "O"
      [] c = "p" -> "P" [] c = "r" -> "R" [] c = "t" -> "T" [] c = "u" -> "U"
      [] c = "v" -> "V" [] c = "x" -> "X" [] c = "z" -> "Z"
      [] OTHER -> c

Lower(s) == [i \in 1..Len(s) |-> LowerChar(s[i])]

Upper(s) == [i \in 1..Len(s) |-> UpperChar(s[i])]

\* str.startswith(prefix)
StartsWith(s, prefix) ==
    /\ Len(prefix) <= Len(s)
    /\ SubSeq(s, 1, Len(prefix)) = prefix

\* str(n) of a Python int
RECURSIVE NatToStr(_)
NatToStr(n) ==
    IF n < 10 THEN <<DigitChar(n)>>
    ELSE NatToStr(n \div 10) \o <<DigitChar(n % 10)>>

IntToStr(n) == IF n < 0 THEN <<"-">> \o NatToStr(-n) ELSE NatToStr(n)

\* The digit groups int() accepts: digits, single underscores between digits.
RECURSIVE DigitGroups(_, _)
DigitGroups(s, acc) ==
    IF s = <<>> THEN [ok |-> TRUE, v |-> acc]
    ELSE IF Head(s) \in Digits
         THEN DigitGroups(Tail(s), 10 * acc + DigitVal(Head(s)))
    ELSE IF Head(s) = "_" /\ Len(s) >= 2 /\ s[2] \in Digits
         THEN DigitGroups(Tail(s), acc)
    ELSE [ok |-> FALSE, v |-> 0]

\* int(text): white space stripped, an optional sign, then digit groups;
\* ok = FALSE stands for the ValueError.
ParseInt(text) ==
    LET s    == Strip(text)
        neg  == s # <<>> /\ Head(s) = "-"
        sign == s # <<>> /\ Head(s) \in {"-", "+"}
        body == IF sign THEN Tail(s) ELSE s
        r    == IF body # <<>> /\ Head(body) \in Digits
                THEN DigitGroups(body, 0)
                ELSE [ok |-> FALSE, v |-> 0]
    IN  [ok |-> r.ok, v |-> IF neg THEN -r.v ELSE r.v]


(***************************************************************************)
(* Bounds of the model                                                     *)
(***************************************************************************)
\* The worksheet's populated grid is rows 1..MaxRow (row 1 is the header).
MaxRow == 4

\* BATCH_SIZE ranges over 1..MaxBatch.
MaxBatch == 3

\* The largest integer a cursor cell holds before the first run.
MaxCursor == 6

(***************************************************************************)
(* Literals of the program                                                 *)
(***************************************************************************)
\* The row of the cursor cell A100000.
CursorRow == 100000

\* The column of the cursor cell A100000.
CursorCol == 1

Empty == << >>

NO_DISPONIBLE == <<"N", "O", " ", "D", "I", "S", "P", "O", "N", "I", "B", "L", "E">>

VendidoPorLabel == <<"V", "e", "n", "d", "i", "d", "o", " ", "p", "o", "r", ":", " ">>

vendido_por == <<"v", "e", "n", "d", "i", "d", "o", " ", "p", "o", "r">>

URL == <<"U", "R", "L">>

VENDEDOR == <<"V", "E", "N", "D", "E", "D", "O", "R">>

PRECIO_VEI == <<"P", "R", "E", "C", "I", "O", " ", "V", "E", "I">>

ACTUALIZADO == <<"A", "C", "T", "U", "A", "L", "I", "Z", "A", "D", "O">>

(***************************************************************************)
(* _should_run_now: the run gate.  now is the local datetime, read through *)
(* its fields weekday() (Monday = 0 .. Sunday = 6) and hour.               *)
(***************************************************************************)
HourLeMutant(now) ==
    IF now.weekday = 6 THEN FALSE ELSE 8 <= now.hour /\ now.hour < 17

_should_run_now(now) ==
    IF now.weekday = 6 THEN FALSE ELSE 8 <= now.hour /\ now.hour <= 17

\* The local datetimes the gate is tried on.
Times == [weekday : 0..6, hour : 0..23, minute : {0, 30, 59}, second : {0, 59}]

(***************************************************************************)
(* The cursor read at the head of _read_batch                              *)
(***************************************************************************)
NoClampMutant(cursor_val) ==
    IF cursor_val = Empty THEN 2
    ELSE IF ParseInt(cursor_val).ok THEN ParseInt(cursor_val).v ELSE 2

\* start_row as lines 119-126 compute it from the cell's value: int() of a
\* non-empty value, 2 for an empty one or on any exception, then at least 2.
ReadCursor(cursor_val) ==
    LET parsed == IF cursor_val = Empty THEN 2
                  ELSE IF ParseInt(cursor_val).ok THEN ParseInt(cursor_val).v
                  ELSE 2
    IN  IF parsed < 2 THEN 2 ELSE parsed

(***************************************************************************)
(* Python values read out of parsed JSON.  A value is [t, s]: t its type   *)
(* ("none" for None or an absent key, "str", "num", "list", "dict") and s  *)
(* its text: the string itself, or what str() renders for the others.      *)
(***************************************************************************)
PyNone == [t |-> "none", s |-> Empty]

PyStr(text) == [t |-> "str", s |-> text]

PyNum(n) == [t |-> "num", s |-> IntToStr(n)]

PyList(rendered) == [t |-> "list", s |-> rendered]

PyDict(rendered) == [t |-> "dict", s |-> rendered]

\* bool(v): None, "", 0, [] and {} are false.
Truthy(v) ==
    CASE v.t = "none" -> FALSE
      [] v.t = "str"  -> v.s # Empty
      [] v.t = "num"  -> v.s # <<"0">>
      [] v.t = "list" -> v.s # <<"[", "]">>
      [] v.t = "dict" -> v.s # <<"{", "}">>

\* a or b
PyOr(a, b) == IF Truthy(a) THEN a ELSE b

\* isinstance(v, str)
IsStr(v) == v.t = "str"

(***************************************************************************)
(* The two regular expressions of the visible-DOM probes                   *)
(***************************************************************************)
PriceChars == Digits \cup {".", ","}

Newlines == {"\n", "\r"}

\* The end of the longest run of characters of class from position i on.
RECURSIVE RunEnd(_, _, _)
RunEnd(text, i, class) ==
    IF i <= Len(text) /\ text[i] \in class
    THEN RunEnd(text, i + 1, class)
    ELSE i - 1

\* re.search(r"(\d[\d\.\,]+)", text).group(1), Empty when there is no match:
\* the leftmost digit followed by at least one digit, dot or comma, and the
\* longest such run.
PriceMatch(text) ==
    LET starts == {i \in 1..(Len(text) - 1) :
                      text[i] \in Digits /\ text[i + 1] \in PriceChars}
    IN  IF starts = {} THEN Empty
        ELSE LET i == CHOOSE x \in starts : \A y \in starts : x <= y
             IN  SubSeq(text, i, RunEnd(text, i + 1, PriceChars))

\* re.search(r"Vendido por[:\s]*([^\n\r]+)", text, re.IGNORECASE): the match
\* at the leftmost occurrence of the phrase that has one; [:\s]* is greedy
\* and gives characters back until the group finds a character that is no
\* line break.  [matched, group].
VendorMatch(text) ==
    LET n      == Len(vendido_por)
        phrase == {i \in 1..(Len(text) - n + 1) :
                      Lower(SubSeq(text, i, i + n - 1)) = vendido_por}
        Skips(i) ==
            {p \in (i + n)..(RunEnd(text, i + n, {":"} \cup Whitespace) + 1) :
                 p <= Len(text) /\ text[p] \notin Newlines}
        starts == {i \in phrase : Skips(i) # {}}
    IN  IF starts = {} THEN [matched |-> FALSE, group |-> Empty]
        ELSE LET i == CHOOSE x \in starts : \A y \in starts : x <= y
                 p == CHOOSE x \in Skips(i) : \A y \in Skips(i) : y <= x
                 q == RunEnd(text, p, {text[k] : k \in 1..Len(text)} \ Newlines)
             IN  [matched |-> TRUE, group |-> SubSeq(text, p, q)]

(***************************************************************************)
(* _extract_price_vendor.  A document is what one URL serves:              *)
(*   nav        "ok", or "timeout" when page.goto raises                   *)
(*   priceSel   per price selector, in order: [k, s] with k = "none" (no   *)
(*              element), "throws" (the query or inner_text raises) or     *)
(*              "text" (the element's inner text s)                        *)
(*   vendorSel  the same per vendor selector                               *)
(*   jsonld     the ld+json script blocks of the HTML, in document order   *)
(*   pushes     the dataLayer.push({...}) literals of the HTML, in order   *)
(* The cascade's variables are price (always a str) and vendor (any        *)
(* Python value); exc says the try body was left by an exception.          *)
(***************************************************************************)
NoElement == [k |-> "none", s |-> Empty]

Throws == [k |-> "throws", s |-> Empty]

ElementText(text) == [k |-> "text", s |-> text]

\* 1) lines 241-248: the first selector whose element's text has a price.
RECURSIVE PriceProbe(_, _)
AfterPriceSelector(priceSel, i, match) ==
    IF match # Empty THEN [price |-> match, exc |-> FALSE]
    ELSE PriceProbe(priceSel, i + 1)

PriceProbe(priceSel, i) ==
    IF i > Len(priceSel) THEN [price |-> Empty, exc |-> FALSE]
    ELSE IF priceSel[i].k = "throws" THEN [price |-> Empty, exc |-> TRUE]
    ELSE IF priceSel[i].k = "none" THEN PriceProbe(priceSel, i + 1)
    ELSE AfterPriceSelector(priceSel, i, PriceMatch(priceSel[i].s))

\* 2) lines 255-262: the first selector whose element's text has the phrase.
RECURSIVE VendorProbe(_, _)
AfterVendorSelector(vendorSel, i, match) ==
    IF match.matched
    THEN [vendor |-> PyStr(Strip(match.group)), exc |-> FALSE]
    ELSE VendorProbe(vendorSel, i + 1)

VendorProbe(vendorSel, i) ==
    IF i > Len(vendorSel) THEN [vendor |-> PyStr(Empty), exc |-> FALSE]
    ELSE IF vendorSel[i].k = "throws" THEN [vendor |-> PyStr(Empty), exc |-> TRUE]
    ELSE IF vendorSel[i].k = "none" THEN VendorProbe(vendorSel, i + 1)
    ELSE AfterVendorSelector(vendorSel, i, VendorMatch(vendorSel[i].s))

(***************************************************************************)
(* 3) JSON-LD.  A block is [malformed, data]: json.loads raises on a       *)
(* malformed block; data is the parsed value as the list nodes of line 273 *)
(* (the value itself when it is a list, else the one-element list of it).  *)
(* A node is [dict, graph, type, offers, price, lowPrice, highPrice,       *)
(* seller, name, atName, brand, brandName]:                                *)
(*   dict      isinstance(node, dict)                                      *)
(*   graph     node["@graph"] when it is a list, else <<>>                 *)
(*   type      node["@type"]: "absent", "Product", "Thing", or a list      *)
(*             "ListWithProduct" / "ListWithout"                           *)
(*   offers    node["offers"]: "absent", "dict", "list_of_dict" (its first *)
(*             element is the offer), "list_of_other", "empty_list",       *)
(*             "other"                                                     *)
(*   price, lowPrice, highPrice   the offer's values                       *)
(*   seller    the offer's "seller": "absent", "dict", "other"             *)
(*   name, atName   seller["name"], seller["@name"]                        *)
(*   brand     node["brand"]: PyNone, a str, a dict (brandName is its      *)
(*             "name") or another value                                    *)
(***************************************************************************)
\* lines 274-278: nodes grows by each node's @graph while it is iterated.
RECURSIVE FlattenGraph(_, _)
FlattenGraph(nodes, i) ==
    IF i > Len(nodes) THEN nodes
    ELSE IF nodes[i].dict /\ nodes[i].graph # <<>>
         THEN FlattenGraph(nodes \o nodes[i].graph, i + 1)
    ELSE FlattenGraph(nodes, i + 1)

\* "Product" in type_list
HasProduct(type) == type \in {"Product", "ListWithProduct"}

\* isinstance(offers, dict), after offers = offers[0] for a list.
IsOffer(node) == node.offers \in {"dict", "list_of_dict"}

\* line 294: the offer's price, lowPrice or highPrice, or "".
OfferPrice(node) ==
    PyOr(PyOr(PyOr(node.price, node.lowPrice), node.highPrice), PyStr(Empty))

\* lines 293-296, p being OfferPrice(node).
PriceFromOffer(node, price, p) ==
    IF IsOffer(node) /\ price = Empty /\ Truthy(p) THEN Strip(p.s) ELSE price

\* lines 297-300
VendorFromOffer(node, vendor) ==
    IF IsOffer(node) /\ ~Truthy(vendor) /\ node.seller = "dict"
    THEN PyOr(PyOr(node.name, node.atName), PyStr(Empty))
    ELSE vendor

\* lines 301-306
VendorFromBrand(node, vendor) ==
    IF ~Truthy(vendor) /\ Truthy(node.brand)
    THEN IF node.brand.t = "dict" THEN PyOr(node.brandName, PyStr(Empty))
         ELSE IF IsStr(node.brand) THEN node.brand
         ELSE vendor
    ELSE vendor

\* lines 280-306 for one node; exc is the IndexError of offers[0].
ProductNode(node, price, vendor) ==
    IF ~node.dict \/ node.type = "absent" \/ ~HasProduct(node.type)
    THEN [price |-> price, vendor |-> vendor, exc |-> FALSE]
    ELSE IF node.offers = "empty_list"
    THEN [price |-> price, vendor |-> vendor, exc |-> TRUE]
    ELSE [price  |-> PriceFromOffer(node, price, OfferPrice(node)),
          vendor |-> VendorFromBrand(node, VendorFromOffer(node, vendor)),
          exc    |-> FALSE]

\* lines 279-308: the nodes in order, until both are found or one raises;
\* r is what node i left.
RECURSIVE ProductNodes(_, _, _, _)
AfterNode(nodes, i, r) ==
    IF r.exc \/ (r.price # Empty /\ Truthy(r.vendor)) THEN r
    ELSE ProductNodes(nodes, i + 1, r.price, r.vendor)

ProductNodes(nodes, i, price, vendor) ==
    IF i > Len(nodes) THEN [price |-> price, vendor |-> vendor, exc |-> FALSE]
    ELSE AfterNode(nodes, i, ProductNode(nodes[i], price, vendor))

\* price and vendor as an exception inside a block leaves them: what was
\* assigned before it stays.
Kept(r) == [price |-> r.price, vendor |-> r.vendor]

\* lines 270-312 for one block
JsonLdBlock(block, price, vendor) ==
    IF block.malformed THEN [price |-> price, vendor |-> vendor]
    ELSE Kept(ProductNodes(FlattenGraph(block.data, 1), 1, price, vendor))

\* lines 267-312: the blocks in order, until both are found; r is what
\* block i left.
RECURSIVE JsonLdBlocks(_, _, _, _)
AfterBlock(blocks, i, r) ==
    IF r.price # Empty /\ Truthy(r.vendor) THEN r
    ELSE JsonLdBlocks(blocks, i + 1, r.price, r.vendor)

JsonLdBlocks(blocks, i, price, vendor) ==
    IF i > Len(blocks) THEN [price |-> price, vendor |-> vendor]
    ELSE AfterBlock(blocks, i, JsonLdBlock(blocks[i], price, vendor))
JsonLdOverwritesMutant(doc, price, vendor) ==
    JsonLdBlocks(doc.jsonld, 1, Empty, PyStr(Empty))

\* 3) lines 264-312
JsonLdStage(doc, price, vendor) ==
    IF price = Empty \/ ~Truthy(vendor)
    THEN JsonLdBlocks(doc.jsonld, 1, price, vendor)
    ELSE [price |-> price, vendor |-> vendor]

(***************************************************************************)
(* 4) dataLayer.  A push is [malformed, price, productPrice, seller,       *)
(* sellerName]: the captured literal parses to a dict, or json.loads       *)
(* raises.                                                                 *)
(***************************************************************************)
\* lines 319-326, p and v being the literal's price and seller.
PushInto(price, vendor, p, v) ==
    [price  |-> IF price = Empty /\ Truthy(p) THEN p.s ELSE price,
     vendor |-> IF ~Truthy(vendor) /\ Truthy(v) THEN v ELSE vendor]

\* lines 317-330 for one literal
DataLayerPush(push, price, vendor) ==
    IF push.malformed THEN [price |-> price, vendor |-> vendor]
    ELSE PushInto(price, vendor,
                  PyOr(PyOr(push.price, push.productPrice), PyStr(Empty)),
                  PyOr(PyOr(push.seller, push.sellerName), PyStr(Empty)))

\* lines 316-330: the literals in order, until both are found; r is what
\* literal i left.
RECURSIVE DataLayerPushes(_, _, _, _)
AfterPush(pushes, i, r) ==
    IF r.price # Empty /\ Truthy(r.vendor) THEN r
    ELSE DataLayerPushes(pushes, i + 1, r.price, r.vendor)

DataLayerPushes(pushes, i, price, vendor) ==
    IF i > Len(pushes) THEN [price |-> price, vendor |-> vendor]
    ELSE AfterPush(pushes, i, DataLayerPush(pushes[i], price, vendor))

\* 4) lines 314-330
DataLayerStage(doc, price, vendor) ==
    IF price = Empty \/ ~Truthy(vendor)
    THEN DataLayerPushes(doc.pushes, 1, price, vendor)
    ELSE [price |-> price, vendor |-> vendor]

(***************************************************************************)
(* The try body of lines 227-332 and the normalization of lines 333-339    *)
(***************************************************************************)
\* The page with nothing loaded.
BlankPage ==
    [nav |-> "ok", priceSel |-> <<>>, vendorSel |-> <<>>, jsonld |-> <<>>,
     pushes |-> <<>>]

\* What the shared page holds after page.goto(url): the document when the
\* navigation succeeds, what it held before when it times out.
Loaded(page, doc) == IF doc.nav = "ok" THEN doc ELSE page

\* lines 263-330, s3 being what the JSON-LD stage left.
AfterJsonLd(loaded, s3) == DataLayerStage(loaded, s3.price, s3.vendor)

\* lines 249-330, s2 being the vendor probe's outcome: its exception leaves
\* the try body with the price found so far.
AfterVendorProbe(loaded, price, s2) ==
    IF s2.exc THEN [price |-> price, vendor |-> PyStr(Empty)]
    ELSE AfterJsonLd(loaded, JsonLdStage(loaded, price, s2.vendor))

\* lines 241-330, s1 being the price probe's outcome: its exception leaves
\* the try body with nothing found.
AfterPriceProbe(loaded, s1) ==
    IF s1.exc THEN [price |-> Empty, vendor |-> PyStr(Empty)]
    ELSE AfterVendorProbe(loaded, s1.price, VendorProbe(loaded.vendorSel, 1))

\* lines 233-330 on the loaded page: price and vendor as the stages leave
\* them.
Cascade(loaded) == AfterPriceProbe(loaded, PriceProbe(loaded.priceSel, 1))

StalePageMutant(page, doc) == Cascade(Loaded(page, doc))

\* lines 225-332: the except of line 331 catches the navigation timeout
\* with price and vendor still empty.
TryBody(page, doc) ==
    IF doc.nav = "timeout" THEN [price |-> Empty, vendor |-> PyStr(Empty)]
    ELSE Cascade(Loaded(page, doc))

\* line 334
NormalPrice(price) == IF price # Empty THEN Strip(price) ELSE NO_DISPONIBLE

\* line 335, for a vendor that is a str or falsy.
NormalVendor(vendor) ==
    IF Truthy(vendor) THEN Strip(vendor.s) ELSE NO_DISPONIBLE

\* lines 337-338
Labelled(v) ==
    IF v # NO_DISPONIBLE /\ ~StartsWith(Lower(v), vendido_por)
    THEN VendidoPorLabel \o v
    ELSE v

\* lines 333-339.  vendor.strip() raises AttributeError, outside the try,
\* when vendor is a truthy value that is no str: raised.
Normalize(price, vendor) ==
    IF Truthy(vendor) /\ ~IsStr(vendor)
    THEN [raised |-> TRUE, price |-> Empty, vendor |-> Empty]
    ELSE [raised |-> FALSE,
          price  |-> NormalPrice(price),
          vendor |-> Labelled(NormalVendor(vendor))]

\* The return of _extract_price_vendor, r being what the try body left.
Returned(r) == Normalize(r.price, r.vendor)

\* _extract_price_vendor(page, url), url serving doc: the pair returned, or
\* raised when the call raises.
_extract_price_vendor(page, doc) == Returned(TryBody(page, doc))

(***************************************************************************)
(* The documents the extraction is tried on                                *)
(***************************************************************************)
\* The longest list of JSON-LD blocks in a document.
MaxBlocks == 2

\* The longest list of dataLayer pushes in a document.
MaxPushes == 2

\* Sample texts.
TxtPrice    == <<"$", " ", "1", ".", "2", "9", "9">>
TxtOneDigit == <<"$", " ", "5">>
TxtTwoPrice == <<"9", ",", "9", " ", "/", " ", "1", "2">>
TxtVendor   == <<"V", "e", "n", "d", "i", "d", "o", " ", "p", "o", "r", ":", " ", "A", "x", "\n", "z">>
TxtVendorUp == <<"V", "E", "N", "D", "I", "D", "O", " ", "P", "O", "R", "\n", "C">>
TxtBarePhrase == <<"V", "e", "n", "d", "i", "d", "o", " ", "p", "o", "r">>
TxtPhraseBlank == <<"v", "e", "n", "d", "i", "d", "o", " ", "p", "o", "r", ":", " ">>
TxtExito    == <<"E", "x", "i", "t", "o">>
TxtLabelled == <<"V", "e", "n", "d", "i", "d", "o", " ", "p", "o", "r", ":", " ", "L", "a">>
TxtLowered  == <<"v", "e", "n", "d", "i", "d", "o", " ", "p", "o", "r", " ", "x">>
TxtBrand    == <<"Z", "e", "n">>
TxtBlank    == <<" ", " ">>
TxtPadded   == <<" ", "7", "5", "0", " ">>
TxtJsonPrice == <<"2", "5", "0", "0">>
TxtLowPrice == <<"1", "8", "0">>
TxtList     == <<"[", "'", "x", "'", "]">>
TxtDict     == <<"{", "'", "a", "'", ":", " ", "1", "}">>

\* The outcomes of the five price selectors of lines 234-240.
PriceSels ==
    { <<NoElement, NoElement, NoElement, NoElement, NoElement>>,
      <<ElementText(TxtPrice), NoElement, NoElement, NoElement, NoElement>>,
      <<ElementText(TxtOneDigit), NoElement, ElementText(Empty), NoElement,
        ElementText(TxtTwoPrice)>>,
      <<NoElement, Throws, ElementText(TxtPrice), NoElement, NoElement>>,
      <<NoElement, ElementText(TxtTwoPrice), Throws, NoElement, NoElement>> }

\* The outcomes of the three vendor selectors of lines 250-254.
VendorSels ==
    { <<NoElement, NoElement, NoElement>>,
      <<ElementText(TxtVendor), NoElement, NoElement>>,
      <<ElementText(TxtBarePhrase), NoElement, ElementText(TxtVendorUp)>>,
      <<ElementText(TxtPhraseBlank), ElementText(TxtVendor), NoElement>>,
      <<NoElement, Throws, ElementText(TxtVendor)>> }

\* A JSON-LD node with nothing in it.
BareNode ==
    [dict |-> TRUE, graph |-> <<>>, type |-> "absent", offers |-> "absent",
     price |-> PyNone, lowPrice |-> PyNone, highPrice |-> PyNone,
     seller |-> "absent", name |-> PyNone, atName |-> PyNone,
     brand |-> PyNone, brandName |-> PyNone]

\* A Product node with a dict offer.
Product(price, name) ==
    [BareNode EXCEPT !.type = "Product", !.offers = "dict", !.price = price,
                     !.seller = "dict", !.name = name]

Block(nodes) == [malformed |-> FALSE, data |-> nodes]

MalformedBlock == [malformed |-> TRUE, data |-> <<>>]

Push(price, seller) ==
    [malformed |-> FALSE, price |-> price, productPrice |-> PyNone,
     seller |-> seller, sellerName |-> PyNone]

MalformedPush ==
    [malformed |-> TRUE, price |-> PyNone, productPrice |-> PyNone,
     seller |-> PyNone, sellerName |-> PyNone]

\* The sequences over S of length at most n.
RECURSIVE SeqsUpTo(_, _)
SeqsUpTo(S, n) ==
    IF n = 0 THEN {<<>>}
    ELSE LET shorter == SeqsUpTo(S, n - 1)
         IN  shorter \cup {Append(q, x) : q \in shorter, x \in S}

\* Blocks and pushes the cascade's stages are combined over.
CascadeBlocks ==
    { MalformedBlock,
      Block(<<Product(PyStr(TxtJsonPrice), PyStr(TxtExito))>>),
      Block(<<Product(PyNone, PyNum(7))>>),
      Block(<<[BareNode EXCEPT !.type = "Product", !.offers = "empty_list"],
              Product(PyStr(TxtLowPrice), PyStr(TxtBrand))>>) }

CascadePushes ==
    { MalformedPush,
      Push(PyNum(990), PyStr(TxtLabelled)),
      Push(PyStr(TxtBlank), PyDict(TxtDict)) }

\* Documents that combine the stages.
CascadeDocs ==
    [nav : {"ok", "timeout"}, priceSel : PriceSels, vendorSel : VendorSels,
     jsonld : SeqsUpTo(CascadeBlocks, MaxBlocks),
     pushes : SeqsUpTo(CascadePushes, MaxPushes)]

\* The Product nodes with a dict offer a single JSON-LD block is varied over.
OfferSamples ==
    [dict : {TRUE}, graph : {<<>>}, type : {"Product"}, offers : {"dict"},
     price : {PyNone, PyStr(TxtPadded), PyNum(0), PyStr(TxtBlank)},
     lowPrice : {PyNone, PyNum(180)},
     highPrice : {PyNone, PyList(TxtList)},
     seller : {"absent", "dict", "other"},
     name : {PyNone, PyStr(TxtExito), PyStr(TxtLowered), PyNum(7), PyList(TxtList)},
     atName : {PyNone, PyStr(TxtBlank)},
     brand : {PyNone, PyStr(TxtBrand), PyDict(TxtDict), PyNum(3)},
     brandName : {PyNone, PyDict(TxtDict)}]

\* The @type and offers shapes a single node is varied over.
ShapeSamples ==
    [dict : {TRUE}, graph : {<<>>},
     type : {"absent", "Product", "Thing", "ListWithProduct", "ListWithout"},
     offers : {"absent", "dict", "list_of_dict", "list_of_other", "empty_list",
               "other"},
     price : {PyStr(TxtJsonPrice)}, lowPrice : {PyNone}, highPrice : {PyNone},
     seller : {"dict"}, name : {PyStr(TxtExito)}, atName : {PyNone},
     brand : {PyNone, PyStr(TxtBrand)}, brandName : {PyNone}]

ProductNodeSamples == OfferSamples \cup ShapeSamples

\* Blocks whose data is no plain list of Product nodes.
ShapedBlocks ==
    { Block(<<>>),
      Block(<<[BareNode EXCEPT !.dict = FALSE]>>),
      Block(<<[BareNode EXCEPT !.graph =
                  <<[BareNode EXCEPT !.graph =
                        <<Product(PyStr(TxtJsonPrice), PyStr(TxtExito))>>]>>]>>),
      Block(<<Product(PyStr(TxtJsonPrice), PyNone),
              Product(PyStr(TxtLowPrice), PyStr(TxtExito))>>) }

\* Documents with nothing visible and one JSON-LD block.
JsonLdDocs ==
    [nav : {"ok"}, priceSel : {<<NoElement, NoElement, NoElement, NoElement, NoElement>>},
     vendorSel : {<<NoElement, NoElement, NoElement>>},
     jsonld : {<<Block(<<n>>)>> : n \in ProductNodeSamples}
                \cup {<<b>> : b \in ShapedBlocks},
     pushes : {<<>>, <<Push(PyNum(990), PyStr(TxtLabelled))>>}]

\* The pushes a single dataLayer literal is varied over.
PushSamples ==
    [malformed : {FALSE},
     price : {PyNone, PyStr(TxtBlank), PyNum(990), PyNum(0)},
     productPrice : {PyNone, PyStr(TxtPadded), PyList(TxtList)},
     seller : {PyNone, PyStr(TxtExito), PyStr(Empty), PyNum(7), PyDict(TxtDict)},
     sellerName : {PyNone, PyStr(TxtLowered), PyStr(TxtBlank), PyList(TxtList)}]

\* Documents with nothing but one dataLayer push.
DataLayerDocs ==
    [nav : {"ok"}, priceSel : {<<NoElement, NoElement, NoElement, NoElement, NoElement>>},
     vendorSel : {<<NoElement, NoElement, NoElement>>},
     jsonld : {<<>>, <<MalformedBlock>>},
     pushes : {<<u>> : u \in PushSamples}]

Documents == CascadeDocs \cup JsonLdDocs \cup DataLayerDocs

\* The documents the URLs of a run serve.
DocJsonLd ==
    [BlankPage EXCEPT !.jsonld =
        <<Block(<<Product(PyStr(TxtJsonPrice), PyStr(TxtExito))>>)>>]

DocVisible ==
    [BlankPage EXCEPT
        !.priceSel = <<ElementText(TxtPrice), NoElement, NoElement, NoElement, NoElement>>,
        !.vendorSel = <<ElementText(TxtVendor), NoElement, NoElement>>]

DocTimeout == [DocJsonLd EXCEPT !.nav = "timeout"]

DocSellerNumber ==
    [BlankPage EXCEPT !.jsonld = <<Block(<<Product(PyNone, PyNum(7))>>)>>]

RunDocs == {DocJsonLd, DocVisible, DocTimeout, DocSellerNumber}

(***************************************************************************)
(* The worksheet.  sheet[r] is row r of the populated grid, a sequence of  *)
(* cell texts (Empty for an empty cell), r in 1..MaxRow; every row below   *)
(* is empty but for the cursor cell A100000, kept in cursorCell.  The grid *)
(* has at least CursorRow rows (the cursor cell is in it).                 *)
(***************************************************************************)
Max(S) == CHOOSE x \in S : \A y \in S : y <= x

Min(a, b) == IF a <= b THEN a ELSE b

\* val.strip().upper() == name
HeaderIs(val, name) == Upper(Strip(val)) = name

\* lines 130-138: the first header cell that is "URL", 0 for None.
UrlColumn(header) ==
    LET hits == {idx \in 1..Len(header) : HeaderIs(header[idx], URL)}
    IN  IF hits = {} THEN 0 ELSE CHOOSE x \in hits : \A y \in hits : x <= y

\* lines 168-179: the last header cell of each name, 0 for None.
LastColumn(header, name) ==
    LET hits == {idx \in 1..Len(header) : HeaderIs(header[idx], name)}
    IN  IF hits = {} THEN 0 ELSE Max(hits)

\* The text of cell (r, c).
CellAt(sheet, r, c) == IF r \in DOMAIN sheet THEN sheet[r][c] ELSE Empty

\* worksheet.get of rows lo..hi of column c: the rows up to the last
\* non-empty cell of the range, an empty row being the empty list.
LastFilled(sheet, c, lo, hi) ==
    LET filled == {r \in lo..Min(hi, MaxRow) : CellAt(sheet, r, c) # Empty}
    IN  IF filled = {} THEN lo - 1 ELSE Max(filled)

\* len(worksheet.get_all_values()): the last row with a non-empty cell.
LastDataRow(sheet, cursorCell) ==
    IF cursorCell # Empty THEN CursorRow
    ELSE Max({0} \cup {r \in DOMAIN sheet :
                          \E c \in 1..Len(sheet[r]) : sheet[r][c] # Empty})

\* line 144: row[0] of each row read; an empty row raises IndexError.
Flattened(sheet, col, start_row, last) ==
    IF \E r \in start_row..last : CellAt(sheet, r, col) = Empty
    THEN [raised |-> TRUE, error |-> "index_error", start_row |-> 0,
          urls |-> <<>>]
    ELSE [raised |-> FALSE, error |-> "", start_row |-> start_row,
          urls |-> [i \in 1..(last - start_row + 1) |->
                       CellAt(sheet, start_row + i - 1, col)]]
ReadOneMoreMutant(sheet, url_col_idx, start_row, batch_size) ==
    Flattened(sheet, url_col_idx, start_row,
              LastFilled(sheet, url_col_idx, start_row,
                         Min(start_row + batch_size, CursorRow)))

\* lines 140-145: the rows start_row..end_row of the URL column;
\* total_rows, worksheet.row_count, is at least CursorRow.
BatchFrom(sheet, url_col_idx, start_row, batch_size) ==
    Flattened(sheet, url_col_idx, start_row,
              LastFilled(sheet, url_col_idx, start_row,
                         Min(start_row + batch_size - 1, CursorRow)))

\* _read_batch(worksheet, batch_size): (start_row, urls), or raised with the
\* RuntimeError of line 138 or the IndexError of line 144.
_read_batch(sheet, cursorCell, batch_size) ==
    IF UrlColumn(sheet[1]) = 0
    THEN [raised |-> TRUE, error |-> "no_url_column", start_row |-> 0,
          urls |-> <<>>]
    ELSE BatchFrom(sheet, UrlColumn(sheet[1]), ReadCursor(cursorCell), batch_size)

\* strftime("%Y-%m-%d %H:%M:%S") of the time of the write.
Stamp == <<"t", "s">>

WriteShiftedMutant(sheet, start_row, sellers, prices) ==
    IF LastColumn(sheet[1], VENDEDOR) = 0 \/ LastColumn(sheet[1], PRECIO_VEI) = 0
    THEN [raised |-> TRUE, sheet |-> sheet]
    ELSE [raised |-> FALSE,
          sheet  |-> [r \in DOMAIN sheet |->
                        IF r \in (start_row + 1)..(start_row + Len(sellers))
                        THEN [sheet[r] EXCEPT
                                 ![LastColumn(sheet[1], VENDEDOR)] = sellers[r - start_row],
                                 ![LastColumn(sheet[1], PRECIO_VEI)] = prices[r - start_row]]
                        ELSE sheet[r]]]

\* _write_results(worksheet, start_row, sellers, prices): the sheet after
\* update_cells, or raised with the RuntimeError of line 181.
_write_results(sheet, start_row, sellers, prices) ==
    LET col_seller == LastColumn(sheet[1], VENDEDOR)
        col_price  == LastColumn(sheet[1], PRECIO_VEI)
        col_ts     == LastColumn(sheet[1], ACTUALIZADO)
        end_row    == start_row + Len(sellers) - 1
        Written(r, c) ==
            IF r \notin start_row..end_row THEN sheet[r][c]
            ELSE IF c = col_seller THEN sellers[r - start_row + 1]
            ELSE IF c = col_price THEN prices[r - start_row + 1]
            ELSE IF c = col_ts THEN Stamp
            ELSE sheet[r][c]
    IN  IF col_seller = 0 \/ col_price = 0
        THEN [raised |-> TRUE, sheet |-> sheet]
        ELSE [raised |-> FALSE,
              sheet  |-> [r \in DOMAIN sheet |->
                            [c \in 1..Len(sheet[r]) |-> Written(r, c)]]]

NoWrapMutant(start_row, n, last_data_row) == start_row + n

WrapAtLastMutant(start_row, n, last_data_row) ==
    IF start_row + n >= last_data_row THEN 2 ELSE start_row + n

SkipRowMutant(start_row, n, last_data_row) ==
    IF start_row + n + 1 > last_data_row THEN 2 ELSE start_row + n + 1

\* lines 380-384: next_row from start_row, len(urls) and last_data_row.
NextRow(start_row, n, last_data_row) ==
    IF start_row + n > last_data_row THEN 2 ELSE start_row + n

(***************************************************************************)
(* State                                                                   *)
(***************************************************************************)
VARIABLES
    sheet,          \* the worksheet's populated grid, rows 1..MaxRow
    cursorCell,     \* the text of cell A100000
    pc,             \* where main is: "idle" between runs
    opened,         \* _open_sheet has returned the worksheet in this run
    batch_size,     \* main's batch_size
    start_row,      \* main's start_row
    urls,           \* main's urls
    prices,         \* main's prices
    sellers,        \* main's sellers
    browser,        \* "none", "open" or "closed"
    page,           \* the document the shared page holds
    served,         \* per page.goto of this run: [url, doc]
    last_data_row,  \* main's last_data_row
    next_row,       \* main's next_row
    outcome,        \* how the run ended: "skipped", "no_work", "processed", "failed"
    error,          \* the exception a failed run ended with
    reads,          \* calls of _read_batch in this run
    writes,         \* calls of _write_results that updated cells in this run
    cycle,          \* rows written since the cursor cell last came back to 2
    gate,           \* what _should_run_now returned to main: "open", "closed"
    cursor_writes,  \* calls of update_acell("A100000", ...) in this run
    call            \* a single call of a function: its arguments and result

runVars ==
    <<sheet, cursorCell, pc, opened, batch_size, start_row, urls, prices,
      sellers, browser, page, served, last_data_row, next_row, outcome, error,
      reads, writes, cycle, gate, cursor_writes>>

vars == <<runVars, call>>

(***************************************************************************)
(* The sheets a run starts from                                            *)
(***************************************************************************)
HdrUrlPadded  == <<" ", "u", "r", "l", " ">>
HdrVendedorLo == <<"V", "e", "n", "d", "e", "d", "o", "r">>
HdrPrecioLo   == <<"p", "r", "e", "c", "i", "o", " ", "v", "e", "i">>
HdrSku        == <<"S", "K", "U">>
HdrLink       == <<"L", "I", "N", "K">>
HdrSeller     == <<"S", "E", "L", "L", "E", "R">>
HdrPrecio     == <<"P", "R", "E", "C", "I", "O">>

\* Header rows: all four columns; names in other case, no ACTUALIZADO; and
\* one required column missing.  The URLs are in the first column.
Headers ==
    { <<URL, VENDEDOR, PRECIO_VEI, ACTUALIZADO>>,
      <<HdrUrlPadded, HdrSku, HdrPrecioLo, HdrVendedorLo>>,
      <<HdrLink, VENDEDOR, PRECIO_VEI, ACTUALIZADO>>,
      <<URL, HdrSeller, PRECIO_VEI, ACTUALIZADO>>,
      <<URL, VENDEDOR, HdrPrecio, Empty>> }

\* The URL in row r.
UrlOf(r) == <<"u", DigitChar(r)>>

\* The sheet with header row header and a URL in each row of rows.
SheetOf(header, rows) ==
    [r \in 1..MaxRow |->
        IF r = 1 THEN header
        ELSE [c \in 1..Len(header) |->
                 IF c = 1 /\ r \in rows THEN UrlOf(r) ELSE Empty]]

\* What the cursor cell holds before the first run: nothing, text that is
\* no integer, and integers written in the ways int() accepts.
CursorTexts ==
    { Empty, <<"a", "b">>, <<"3", ".", "0">>, <<"1", "_">>, <<"-">>,
      <<" ", "4", " ">>, <<"+", "3">>, <<"-", "3">>, <<"0", "3">>,
      <<"1", "_", "0">> }
    \cup {IntToStr(k) : k \in 0..MaxCursor}

(***************************************************************************)
(* main, one run after another                                             *)
(***************************************************************************)
\* The local datetimes runs start at.
RunTimes ==
    { [weekday |-> 6, hour |-> 12, minute |-> 0,  second |-> 0],
      [weekday |-> 2, hour |-> 9,  minute |-> 30, second |-> 0],
      [weekday |-> 2, hour |-> 19, minute |-> 0,  second |-> 0],
      [weekday |-> 0, hour |-> 8,  minute |-> 0,  second |-> 0],
      [weekday |-> 5, hour |-> 17, minute |-> 59, second |-> 59],
      [weekday |-> 5, hour |-> 18, minute |-> 0,  second |-> 0],
      [weekday |-> 0, hour |-> 7,  minute |-> 59, second |-> 59] }

NoRows == [r \in 2..MaxRow |-> 0]

\* main's locals before a run.
LocalsIdle ==
    /\ opened = FALSE
    /\ batch_size = 0
    /\ start_row = 0
    /\ urls = <<>>
    /\ prices = <<>>
    /\ sellers = <<>>
    /\ browser = "none"
    /\ page = BlankPage
    /\ served = <<>>
    /\ last_data_row = 0
    /\ next_row = 0
    /\ outcome = "none"
    /\ error = ""
    /\ reads = 0
    /\ writes = 0
    /\ gate = "none"
    /\ cursor_writes = 0

NoCall == [f |-> "none"]

InitRun ==
    /\ \E header \in Headers, rows \in SUBSET (2..MaxRow) :
          sheet = SheetOf(header, rows)
    /\ cursorCell \in CursorTexts
    /\ pc = "idle"
    /\ LocalsIdle
    /\ cycle = [count |-> NoRows, closed |-> FALSE,
                whole |-> ReadCursor(cursorCell) = 2]

Init == InitRun /\ call = NoCall

\* The run ends: what it leaves in outcome and error.
Ends(how, why) ==
    /\ pc' = "done"
    /\ outcome' = how
    /\ error' = why
OpenBeforeGateMutant ==
    /\ pc = "idle"
    /\ \E now \in RunTimes, credentials \in BOOLEAN, size \in 1..MaxBatch :
          IF ~credentials
          THEN /\ gate' = IF _should_run_now(now) THEN "open" ELSE "closed"
               /\ Ends("failed", "credentials")
               /\ batch_size' = size
               /\ UNCHANGED opened
          ELSE IF ~_should_run_now(now)
          THEN /\ gate' = "closed"
               /\ Ends("skipped", "")
               /\ batch_size' = size
               /\ opened' = TRUE
          ELSE /\ gate' = "open"
               /\ pc' = "read"
               /\ batch_size' = size
               /\ opened' = TRUE
               /\ UNCHANGED <<outcome, error>>
    /\ UNCHANGED <<sheet, cursorCell, start_row, urls, prices, sellers, browser,
                   page, served, last_data_row, next_row, reads, writes, cycle,
                   cursor_writes, call>>

\* lines 346-351: the gate, BATCH_SIZE and _open_sheet.  credentials says
\* GOOGLE_CREDENTIALS_JSON is set.
StartRun ==
    /\ pc = "idle"
    /\ \E now \in RunTimes, credentials \in BOOLEAN, size \in 1..MaxBatch :
          IF ~_should_run_now(now)
          THEN /\ gate' = "closed"
               /\ Ends("skipped", "")
               /\ UNCHANGED <<opened, batch_size>>
          ELSE IF ~credentials
          THEN /\ gate' = "open"
               /\ Ends("failed", "credentials")
               /\ batch_size' = size
               /\ UNCHANGED opened
          ELSE /\ gate' = "open"
               /\ pc' = "read"
               /\ batch_size' = size
               /\ opened' = TRUE
               /\ UNCHANGED <<outcome, error>>
    /\ UNCHANGED <<sheet, cursorCell, start_row, urls, prices, sellers, browser,
                   page, served, last_data_row, next_row, reads, writes, cycle,
                   cursor_writes, call>>

\* main takes (start_row, urls) from _read_batch, or ends by its exception;
\* without URLs it goes on at pc value empty.
TakeBatch(r, empty) ==
    /\ reads' = reads + 1
    /\ IF r.raised
       THEN /\ Ends("failed", r.error)
            /\ UNCHANGED <<start_row, urls>>
       ELSE /\ start_row' = r.start_row
            /\ urls' = r.urls
            /\ IF r.urls # <<>> THEN pc' = "launch" /\ UNCHANGED <<outcome, error>>
               ELSE IF empty = "done" THEN Ends("no_work", "")
               ELSE pc' = empty /\ UNCHANGED <<outcome, error>>

\* line 352: the first _read_batch.
ReadBatch ==
    /\ pc = "read"
    /\ TakeBatch(_read_batch(sheet, cursorCell, batch_size), "reset")
    /\ UNCHANGED <<sheet, cursorCell, opened, batch_size, prices, sellers,
                   browser, page, served, last_data_row, next_row, writes, cycle,
                   gate, cursor_writes, call>>

\* line 355: worksheet.update_acell("A100000", "2")
ResetCursor ==
    /\ pc = "reset"
    /\ cursorCell' = <<"2">>
    /\ cursor_writes' = cursor_writes + 1
    /\ cycle' = [cycle EXCEPT !.closed = TRUE]
    /\ pc' = "reread"
    /\ UNCHANGED <<sheet, opened, batch_size, start_row, urls, prices, sellers,
                   browser, page, served, last_data_row, next_row, outcome,
                   error, reads, writes, gate, call>>

RereadAgainMutant ==
    /\ pc = "reread"
    /\ TakeBatch(_read_batch(sheet, cursorCell, batch_size), "reread")
    /\ UNCHANGED <<sheet, cursorCell, opened, batch_size, prices, sellers,
                   browser, page, served, last_data_row, next_row, writes, cycle,
                   gate, cursor_writes, call>>

\* lines 356-359: the second _read_batch, and the end of a run without URLs.
RereadBatch ==
    /\ pc = "reread"
    /\ TakeBatch(_read_batch(sheet, cursorCell, batch_size), "done")
    /\ UNCHANGED <<sheet, cursorCell, opened, batch_size, prices, sellers,
                   browser, page, served, last_data_row, next_row, writes, cycle,
                   gate, cursor_writes, call>>

\* lines 363-370: the browser, its context and the one page.
Launch ==
    /\ pc = "launch"
    /\ browser' = "open"
    /\ page' = BlankPage
    /\ pc' = "extract"
    /\ UNCHANGED <<sheet, cursorCell, opened, batch_size, start_row, urls,
                   prices, sellers, served, last_data_row, next_row, outcome,
                   error, reads, writes, cycle, gate, cursor_writes, call>>
NoAwaitMutant ==
    /\ pc \in {"extract", "await"}
    /\ Len(served) < Len(urls)
    /\ \E doc \in RunDocs :
          served' = Append(served, [url |-> urls[Len(served) + 1], doc |-> doc])
    /\ pc' = "await"
    /\ UNCHANGED <<sheet, cursorCell, opened, batch_size, start_row, urls,
                   prices, sellers, browser, page, last_data_row, next_row,
                   outcome, error, reads, writes, cycle, gate, cursor_writes,
                   call>>

\* lines 371-372: the loop takes the next url and main awaits
\* _extract_price_vendor(page, url), whose page.goto is served doc.
ExtractUrl ==
    /\ pc = "extract"
    /\ Len(prices) < Len(urls)
    /\ \E doc \in RunDocs :
          served' = Append(served, [url |-> urls[Len(prices) + 1], doc |-> doc])
    /\ pc' = "await"
    /\ UNCHANGED <<sheet, cursorCell, opened, batch_size, start_row, urls,
                   prices, sellers, browser, page, last_data_row, next_row,
                   outcome, error, reads, writes, cycle, gate, cursor_writes,
                   call>>
LeakOnRaiseMutant(r) ==
    IF r.raised
    THEN /\ Ends("failed", "attribute_error")
         /\ UNCHANGED <<prices, sellers, browser>>
    ELSE /\ prices' = Append(prices, r.price)
         /\ sellers' = Append(sellers, r.vendor)
         /\ pc' = "extract"
         /\ UNCHANGED <<outcome, error, browser>>

\* lines 372-374, r being what _extract_price_vendor did: its exception
\* leaves the async with block, which closes the browser, and ends main.
TakeResult(r) ==
    IF r.raised
    THEN /\ Ends("failed", "attribute_error")
         /\ browser' = "closed"
         /\ UNCHANGED <<prices, sellers>>
    ELSE /\ prices' = Append(prices, r.price)
         /\ sellers' = Append(sellers, r.vendor)
         /\ pc' = "extract"
         /\ UNCHANGED <<outcome, error, browser>>

\* lines 372-374: the awaited call returns and its pair is appended.
AppendResult ==
    /\ pc = "await"
    /\ page' = Loaded(page, served[Len(served)].doc)
    /\ TakeResult(_extract_price_vendor(page, served[Len(served)].doc))
    /\ UNCHANGED <<sheet, cursorCell, opened, batch_size, start_row, urls,
                   served, last_data_row, next_row, reads, writes, cycle, gate,
                   cursor_writes, call>>

\* lines 375-376: after the last url.
CloseBrowser ==
    /\ pc = "extract"
    /\ Len(prices) = Len(urls)
    /\ browser' = "closed"
    /\ pc' = "write"
    /\ UNCHANGED <<sheet, cursorCell, opened, batch_size, start_row, urls,
                   prices, sellers, page, served, last_data_row, next_row,
                   outcome, error, reads, writes, cycle, gate, cursor_writes, call>>

\* The rows of this batch counted into the cycle, a new one after the
\* cursor cell came back to 2.
Counted(c, rows) ==
    [count  |-> [r \in 2..MaxRow |->
                    LET before == IF c.closed THEN 0 ELSE c.count[r]
                    IN  IF r \in rows THEN Min(before + 1, 2) ELSE before],
     closed |-> FALSE,
     whole  |-> c.closed \/ c.whole]
AdvanceAnywayMutant(w) ==
    IF w.raised
    THEN /\ pc' = "advance"
         /\ UNCHANGED <<sheet, writes, cycle, outcome, error>>
    ELSE /\ sheet' = w.sheet
         /\ writes' = writes + 1
         /\ cycle' = Counted(cycle, start_row..(start_row + Len(urls) - 1))
         /\ pc' = "advance"
         /\ UNCHANGED <<outcome, error>>

\* line 378: _write_results
TakeWrite(w) ==
    IF w.raised
    THEN /\ Ends("failed", "no_result_columns")
         /\ UNCHANGED <<sheet, writes, cycle>>
    ELSE /\ sheet' = w.sheet
         /\ writes' = writes + 1
         /\ cycle' = Counted(cycle, start_row..(start_row + Len(urls) - 1))
         /\ pc' = "advance"
         /\ UNCHANGED <<outcome, error>>

WriteResults ==
    /\ pc = "write"
    /\ TakeWrite(_write_results(sheet, start_row, sellers, prices))
    /\ UNCHANGED <<cursorCell, opened, batch_size, start_row, urls, prices,
                   sellers, browser, page, served, last_data_row, next_row,
                   reads, gate, cursor_writes, call>>
WriteTwiceMutant(last, next) ==
    /\ last_data_row' = last
    /\ next_row' = next
    /\ cursorCell' = IntToStr(next)
    /\ cursor_writes' = cursor_writes + 2
    /\ cycle' = [cycle EXCEPT !.closed = (next = 2)]

\* lines 380-386: the cursor for the next run.
PutCursor(last, next) ==
    /\ last_data_row' = last
    /\ next_row' = next
    /\ cursorCell' = IntToStr(next)
    /\ cursor_writes' = cursor_writes + 1
    /\ cycle' = [cycle EXCEPT !.closed = (next = 2)]

AdvanceCursor ==
    /\ pc = "advance"
    /\ PutCursor(LastDataRow(sheet, cursorCell),
                 NextRow(start_row, Len(urls), LastDataRow(sheet, cursorCell)))
    /\ Ends("processed", "")
    /\ UNCHANGED <<sheet, opened, batch_size, start_row, urls, prices, sellers,
                   browser, page, served, reads, writes, gate, call>>

\* The process exits; the next run starts with fresh locals.
EndRun ==
    /\ pc = "done"
    /\ pc' = "idle"
    /\ opened' = FALSE
    /\ batch_size' = 0
    /\ start_row' = 0
    /\ urls' = <<>>
    /\ prices' = <<>>
    /\ sellers' = <<>>
    /\ browser' = "none"
    /\ page' = BlankPage
    /\ served' = <<>>
    /\ last_data_row' = 0
    /\ next_row' = 0
    /\ outcome' = "none"
    /\ error' = ""
    /\ reads' = 0
    /\ writes' = 0
    /\ gate' = "none"
    /\ cursor_writes' = 0
    /\ UNCHANGED <<sheet, cursorCell, cycle, call>>

Next ==
    \/ StartRun
    \/ ReadBatch
    \/ ResetCursor
    \/ RereadBatch
    \/ Launch
    \/ ExtractUrl
    \/ AppendResult
    \/ CloseBrowser
    \/ WriteResults
    \/ AdvanceCursor
    \/ EndRun

Spec == Init /\ [][Next]_vars

(***************************************************************************)
(* Single calls of the two functions of one argument list: the gate on     *)
(* every datetime of Times, the extraction on every document of Documents  *)
(* with the shared page blank or holding an earlier document.  No run is   *)
(* in progress.                                                            *)
(***************************************************************************)
NoRun ==
    /\ sheet = SheetOf(<<URL, VENDEDOR, PRECIO_VEI, ACTUALIZADO>>, {})
    /\ cursorCell = Empty
    /\ pc = "idle"
    /\ LocalsIdle
    /\ cycle = [count |-> NoRows, closed |-> FALSE, whole |-> TRUE]

InitGate ==
    /\ NoRun
    /\ \E now \in Times :
          call = [f |-> "_should_run_now", now |-> now, done |-> FALSE,
                  result |-> FALSE]

CallShouldRunNow ==
    /\ call.f = "_should_run_now"
    /\ ~call.done
    /\ call' = [call EXCEPT !.done = TRUE, !.result = _should_run_now(call.now)]
    /\ UNCHANGED runVars

SpecGate == InitGate /\ [][CallShouldRunNow]_vars

InitExtract ==
    /\ NoRun
    /\ \E before \in {BlankPage, DocVisible}, doc \in Documents :
          call = [f |-> "_extract_price_vendor", page |-> before, doc |-> doc,
                  done |-> FALSE,
                  result |-> [raised |-> FALSE, price |-> Empty, vendor |-> Empty]]

CallExtractPriceVendor ==
    /\ call.f = "_extract_price_vendor"
    /\ ~call.done
    /\ call' = [call EXCEPT !.done = TRUE,
                            !.result = _extract_price_vendor(call.page, call.doc)]
    /\ UNCHANGED runVars

SpecExtract == InitExtract /\ [][CallExtractPriceVendor]_vars

(***************************************************************************)
(* Properties                                                              *)
(***************************************************************************)
InRun == {"reset", "launch", "extract", "await", "write", "advance"}

Processed == pc = "done" /\ outcome = "processed"

\* The rows of the sheet that hold a URL.
UrlRows == {r \in 2..MaxRow : CellAt(sheet, r, UrlColumn(sheet[1])) # Empty}

\* C1: _extract_price_vendor never raises: whatever the page does and
\* whatever the types of the embedded values, the call returns a pair.
C1_NeverRaises ==
    (call.f = "_extract_price_vendor" /\ call.done) => ~call.result.raised

\* C2: a run that fails on a configuration error (credentials missing, or a
\* required header column URL, VENDEDOR or PRECIO VEI missing) has visited
\* no page and never launched the browser.
C2_ConfigErrorBeforeAnyPage ==
    (/\ pc = "done"
     /\ outcome = "failed"
     /\ error \in {"credentials", "no_url_column", "no_result_columns"})
        => (served = <<>> /\ browser = "none")

\* C3: on a sheet whose URLs are in rows 2..L, in a cycle that started with
\* the cursor at 2, no row is written twice before the cursor cell comes
\* back to 2, and when it comes back every row of 2..L was written once.
C3_ExactlyOncePerCycle ==
    (/\ UrlColumn(sheet[1]) # 0
     /\ \E L \in 1..MaxRow : UrlRows = 2..L
     /\ cycle.whole)
        => /\ \A r \in 2..MaxRow : cycle.count[r] <= 1
           /\ cycle.closed => \A r \in UrlRows : cycle.count[r] = 1

\* A cycle of several runs over rows 2..MaxRow ends: the read at the cursor
\* past the last row is empty and the cursor cell is reset.
C3_Witness ==
    /\ pc = "reread"
    /\ UrlRows = 2..MaxRow
    /\ start_row = MaxRow + 1
    /\ cycle.whole
    /\ cycle.closed
    /\ \A r \in 2..MaxRow : cycle.count[r] = 1

C5_NextCursor ==
    /\ Processed
          => /\ next_row = 2 <=> start_row + Len(urls) > last_data_row
             /\ start_row + Len(urls) <= last_data_row
                   => next_row = start_row + Len(urls)
             /\ cursorCell = IntToStr(next_row)
    /\ NextRow(90, 15, 100) = 2
    /\ NextRow(10, 5, 100) = 15

\* The batch ends on the last populated row: no wrap.
C5_Witness ==
    /\ Processed
    /\ start_row + Len(urls) = last_data_row
    /\ next_row = last_data_row

\* The integers a cursor cell can hold, and the texts other than str(k)
\* that int() reads as k.
CursorRange == (0 - MaxCursor)..(MaxRow + MaxCursor + 4)

OtherSpellings(k) ==
    CASE k = 4  -> {<<" ", "4", " ">>}
      [] k = 3  -> {<<"+", "3">>, <<"0", "3">>}
      [] k = 10 -> {<<"1", "_", "0">>}
      [] OTHER  -> {}

StoredIntegers(text) ==
    {k \in CursorRange : text = IntToStr(k) \/ text \in OtherSpellings(k)}

\* C6: the cursor read is 2 for an empty cell or one that holds no integer,
\* 2 for an integer below 2, and the stored integer otherwise.
C6_ReadCursor ==
    pc \in InRun
       => IF StoredIntegers(cursorCell) = {} THEN start_row = 2
          ELSE \A k \in StoredIntegers(cursorCell) :
                  start_row = IF k < 2 THEN 2 ELSE k

\* The cell holds -3 and the batch starts at row 2.
C6_Witness ==
    /\ pc = "launch"
    /\ cursorCell = <<"-", "3">>
    /\ start_row = 2

AtWrite == pc \in {"write", "advance"} \/ Processed

Wrote == pc = "advance" \/ Processed

BatchRows == start_row..(start_row + Len(urls) - 1)

ResultColumns ==
    {LastColumn(sheet[1], VENDEDOR), LastColumn(sheet[1], PRECIO_VEI),
     LastColumn(sheet[1], ACTUALIZADO)}

\* C8: at the write step sellers and prices are as long as the batch, their
\* i-th entries are the extraction of the i-th URL, which is the URL of row
\* start_row + i - 1; the write puts them in that row of VENDEDOR and PRECIO
\* VEI, and changes no row outside the batch.
C8_AlignedByRow ==
    /\ [](AtWrite =>
            /\ Len(sellers) = Len(urls)
            /\ Len(prices) = Len(urls)
            /\ Len(served) = Len(urls)
            /\ \A i \in 1..Len(urls) :
                  /\ urls[i] = CellAt(sheet, start_row + i - 1, UrlColumn(sheet[1]))
                  /\ served[i].url = urls[i]
                  /\ prices[i] = _extract_price_vendor(BlankPage, served[i].doc).price
                  /\ sellers[i] = _extract_price_vendor(BlankPage, served[i].doc).vendor)
    /\ [](Wrote =>
            \A i \in 1..Len(urls) :
               /\ sheet[start_row + i - 1][LastColumn(sheet[1], VENDEDOR)] = sellers[i]
               /\ sheet[start_row + i - 1][LastColumn(sheet[1], PRECIO_VEI)] = prices[i])
    /\ [][\A r \in DOMAIN sheet : \A c \in 1..Len(sheet[r]) :
             sheet'[r][c] # sheet[r][c]
                => /\ pc = "write"
                   /\ r \in BatchRows
                   /\ c \in ResultColumns]_vars

\* Rows 2, 3 and 4 are the batch and the page of row 3 times out: rows 2
\* and 4 hold what was extracted, row 3 the sentinel.
C8_Witness ==
    /\ Processed
    /\ start_row = 2
    /\ Len(urls) = 3
    /\ served[1].doc = DocVisible
    /\ served[2].doc = DocTimeout
    /\ served[3].doc = DocJsonLd
    /\ prices[1] # NO_DISPONIBLE
    /\ sheet[2][LastColumn(sheet[1], PRECIO_VEI)] = prices[1]
    /\ sheet[3][LastColumn(sheet[1], PRECIO_VEI)] = NO_DISPONIBLE
    /\ sheet[3][LastColumn(sheet[1], VENDEDOR)] = NO_DISPONIBLE
    /\ sheet[4][LastColumn(sheet[1], PRECIO_VEI)] = TxtJsonPrice

\* C9: a URL whose navigation times out gives (NO DISPONIBLE, NO DISPONIBLE),
\* the run goes on, and the result of every URL is what its own page gives,
\* whatever the pages before it were.
C9_FailureIsolation ==
    /\ Len(prices) = Len(sellers)
    /\ Len(prices) <= Len(served)
    /\ \A i \in 1..Len(prices) :
          /\ served[i].doc.nav = "timeout"
                => (prices[i] = NO_DISPONIBLE /\ sellers[i] = NO_DISPONIBLE)
          /\ prices[i] = _extract_price_vendor(BlankPage, served[i].doc).price
          /\ sellers[i] = _extract_price_vendor(BlankPage, served[i].doc).vendor
    /\ (pc = "done" /\ Len(served) > Len(prices)) =>
          /\ outcome = "failed"
          /\ served[Len(served)].doc.nav # "timeout"

\* The second navigation times out on a page that still shows the first
\* product; the third URL is extracted all the same.
C9_Witness ==
    /\ Len(prices) = 3
    /\ served[1].doc = DocVisible
    /\ served[2].doc = DocTimeout
    /\ served[3].doc = DocJsonLd
    /\ prices[1] # NO_DISPONIBLE
    /\ prices[2] = NO_DISPONIBLE
    /\ sellers[2] = NO_DISPONIBLE
    /\ prices[3] = TxtJsonPrice

\* C10: an empty first read is followed by one reset of the cursor cell to 2
\* and one more read; if that is empty too the run ends with no browser, no
\* page, no result written and no third read.
C10_BatchExhaustion ==
    /\ [](/\ reads <= 2
          /\ pc = "reset" => (reads = 1 /\ urls = <<>>)
          /\ pc = "reread" => (reads = 1 /\ cursorCell = <<"2">>)
          /\ reads = 2 => (cursorCell = <<"2">> \/ Processed))
    /\ []((pc = "done" /\ outcome = "no_work")
             => /\ reads = 2
                /\ urls = <<>>
                /\ served = <<>>
                /\ browser = "none"
                /\ writes = 0
                /\ cursorCell = <<"2">>)
    /\ [][pc = "reset" => (pc' = "reread" /\ cursorCell' = <<"2">>)]_vars
    /\ [][pc = "reread" => (reads' = 2 /\ pc' \in {"launch", "done"})]_vars

\* Both reads were empty.
C10_Witness ==
    /\ pc = "done"
    /\ outcome = "no_work"
    /\ reads = 2
    /\ start_row = 2

\* C11: the browser is launched at most once in a run, is open through every
\* extraction of the batch, and is no longer open when a run that launched
\* it has ended, whether it ended normally, by an exception of the
\* extraction or by one of a later step.
C11_BrowserScope ==
    /\ [](pc = "done" => browser # "open")
    /\ [](pc \in {"extract", "await"} => browser = "open")
    /\ [](served # <<>> => browser # "none")
    /\ [][browser' # browser =>
             \/ pc = "launch" /\ browser = "none" /\ browser' = "open"
             \/ pc \in {"extract", "await"} /\ browser = "open" /\ browser' = "closed"
             \/ pc = "done" /\ pc' = "idle" /\ browser = "closed" /\ browser' = "none"]_vars

\* The third extraction of the batch raises: the browser that served the
\* first two is closed when the run has failed.
C11_Witness ==
    /\ pc = "done"
    /\ outcome = "failed"
    /\ error = "attribute_error"
    /\ Len(served) = 3
    /\ Len(prices) = 2
    /\ browser = "closed"

\* C12, as claimed: in every run the cursor cell is read at most once (each
\* call of _read_batch reads it once, at line 120) and written at most once.
C12_ReadOnceWrittenOnce == reads <= 1 /\ cursor_writes <= 1

\* C12: in every run the cursor cell is read at most twice and written at
\* most twice; a skipped run does neither; it is read a second time only
\* after the reset wrote 2 to it, and written a second time only at the end
\* of a processed run that went through the reset; every other run reads it
\* at most once and writes it at most once.
C12_CursorAccess ==
    /\ reads <= 2
    /\ cursor_writes <= 2
    /\ gate = "closed" => (reads = 0 /\ cursor_writes = 0)
    /\ reads = 2 => cursor_writes >= 1
    /\ cursor_writes = 2 => (reads = 2 /\ Processed)
    /\ (pc = "done" /\ reads <= 1) => (cursor_writes = 1 <=> Processed)
    /\ (pc = "done" /\ reads = 2) => (cursor_writes = 2 <=> Processed)

\* The first read is empty, the cell is reset, the second read finds URLs
\* and the run ends with the cursor written again.
C12_Witness ==
    /\ Processed
    /\ reads = 2
    /\ cursor_writes = 2
    /\ next_row > 2

\* C13: when _should_run_now returns False the run ends as skipped, and
\* only then; it has not opened or read the sheet, written no result cell
\* and no cursor cell, launched no browser and visited no page, and the
\* sheet and the cursor cell are as they were before the run.
C13_SkippedNoEffect ==
    /\ [](gate = "closed" =>
            /\ pc = "done"
            /\ outcome = "skipped"
            /\ error = ""
            /\ ~opened
            /\ reads = 0
            /\ writes = 0
            /\ cursor_writes = 0
            /\ browser = "none"
            /\ served = <<>>
            /\ urls = <<>>)
    /\ [](outcome = "skipped" => gate = "closed")
    /\ [][(gate = "closed" \/ gate' = "closed") =>
             (sheet' = sheet /\ cursorCell' = cursorCell /\ cycle' = cycle)]_vars

\* A run outside the window, on a sheet with URLs and a cursor.
C13_Witness ==
    /\ pc = "done"
    /\ outcome = "skipped"
    /\ gate = "closed"
    /\ UrlColumn(sheet[1]) # 0
    /\ UrlRows = 2..MaxRow
    /\ cursorCell = <<"3">>

\* What each stage finds on a document when it starts with nothing found.
VisiblePrice(doc) == PriceProbe(doc.priceSel, 1).price

VisibleVendor(doc) == VendorProbe(doc.vendorSel, 1).vendor

JsonLdAlone(doc) == JsonLdBlocks(doc.jsonld, 1, Empty, PyStr(Empty))

DataLayerAlone(doc) == DataLayerPushes(doc.pushes, 1, Empty, PyStr(Empty))

\* The first of three prices, the first of three vendors, that is found.
FirstPrice(a, b, c) == IF a # Empty THEN a ELSE IF b # Empty THEN b ELSE c

FirstVendor(a, b, c) == IF Truthy(a) THEN a ELSE IF Truthy(b) THEN b ELSE c

ByPrecedence(doc) ==
    Normalize(FirstPrice(VisiblePrice(doc), JsonLdAlone(doc).price,
                         DataLayerAlone(doc).price),
              FirstVendor(VisibleVendor(doc), JsonLdAlone(doc).vendor,
                          DataLayerAlone(doc).vendor))

NoProbeRaises(doc) ==
    /\ doc.nav = "ok"
    /\ ~PriceProbe(doc.priceSel, 1).exc
    /\ ~VendorProbe(doc.vendorSel, 1).exc

\* C14: on a page whose probes do not raise, each field is what the first
\* stage that finds it gives, in the order visible element, JSON-LD,
\* dataLayer: no stage overwrites what an earlier one found.
C14_CascadePrecedence ==
    (call.f = "_extract_price_vendor" /\ call.done /\ NoProbeRaises(call.doc))
       => call.result = ByPrecedence(call.doc)

\* No visible price, a visible "Vendido por: Ax", a JSON-LD Product with
\* price 2500 and seller Exito, a dataLayer push with price 990 and another
\* seller: the price is JSON-LD's, the seller the visible one.
C14_Witness ==
    /\ call.f = "_extract_price_vendor"
    /\ call.done
    /\ VisiblePrice(call.doc) = Empty
    /\ VisibleVendor(call.doc) = PyStr(<<"A", "x">>)
    /\ JsonLdAlone(call.doc) = [price |-> TxtJsonPrice, vendor |-> PyStr(TxtExito)]
    /\ DataLayerAlone(call.doc) = [price |-> <<"9", "9", "0">>, vendor |-> PyStr(TxtLabelled)]
    /\ call.result = [raised |-> FALSE, price |-> TxtJsonPrice,
                      vendor |-> VendidoPorLabel \o <<"A", "x">>]

\* C15: once the navigation has succeeded, a visible probe that raises
\* contributes nothing and the later stages still run: the pair returned is
\* what the stages that did not raise give, by precedence.
C15_StageIndependence ==
    (/\ call.f = "_extract_price_vendor"
     /\ call.done
     /\ call.doc.nav = "ok"
     /\ PriceProbe(call.doc.priceSel, 1).exc \/ VendorProbe(call.doc.vendorSel, 1).exc)
        => call.result = ByPrecedence(call.doc)

\* C16: a call that returns gives fields that are the sentinel or not blank;
\* a seller other than the sentinel starts with "vendido por" whatever the
\* case, a raw seller that starts with it already gets no second prefix, and
\* normalizing the returned pair again changes nothing.
C16_Normalized ==
    (call.f = "_extract_price_vendor" /\ call.done /\ ~call.result.raised)
       => /\ Strip(call.result.price) # Empty
          /\ Strip(call.result.vendor) # Empty
          /\ call.result.vendor # NO_DISPONIBLE
                => StartsWith(Lower(call.result.vendor), vendido_por)
          /\ StartsWith(Lower(Strip(TryBody(call.page, call.doc).vendor.s)), vendido_por)
                => call.result.vendor = Strip(TryBody(call.page, call.doc).vendor.s)
          /\ Normalize(call.result.price, PyStr(call.result.vendor)) = call.result

\* main holds the (start_row, urls) of a batch read that returned.
HasBatch ==
    \/ pc \in InRun
    \/ pc = "reread"
    \/ (pc = "done" /\ outcome \in {"processed", "no_work"})

\* The last row of the sheet with anything in it.
LastRow == Max({r \in DOMAIN sheet : \E c \in 1..Len(sheet[r]) : sheet[r][c] # Empty})

\* The last row of the batch's range.
RangeEnd == Min(start_row + batch_size - 1, LastRow)

\* C17: a batch read returns at most batch_size URLs and none from beyond
\* the sheet's last row: urls are the URL cells of the rows from start_row
\* to min(start_row + batch_size - 1, last row), in order, with nothing
\* after them in that range, and there are none when start_row is beyond
\* the last row.
C17_BatchBounds ==
    HasBatch
       => /\ Len(urls) <= batch_size
          /\ urls # <<>> => start_row + Len(urls) - 1 <= RangeEnd
          /\ \A i \in 1..Len(urls) :
                /\ urls[i] # Empty
                /\ urls[i] = CellAt(sheet, start_row + i - 1, UrlColumn(sheet[1]))
          /\ \A r \in (start_row + Len(urls))..RangeEnd :
                CellAt(sheet, r, UrlColumn(sheet[1])) = Empty
          /\ start_row > LastRow => urls = <<>>
          /\ (UrlRows = 2..LastRow /\ start_row <= LastRow)
                => Len(urls) = RangeEnd - start_row + 1

\* URLs in rows 2..MaxRow, the cursor on row 3, a batch of 3: the last row
\* cuts the batch to rows 3 and 4.
C17_Witness ==
    /\ pc = "launch"
    /\ UrlRows = 2..MaxRow
    /\ start_row = 3
    /\ batch_size = 3
    /\ Len(urls) = MaxRow - 2
    /\ Len(urls) < batch_size

\* C18: the URLs of a batch are extracted one after the other, in their
\* order: a navigation starts only when every earlier one has returned its
\* pair, so at most one is awaited at any time, and each pair appended is
\* that of the one navigation awaited.
C18_Sequential ==
    /\ [](/\ Len(prices) = Len(sellers)
          /\ Len(served) - Len(prices) \in {0, 1}
          /\ pc = "await" => Len(served) = Len(prices) + 1
          /\ pc \in {"extract", "write", "advance"} => Len(served) = Len(prices)
          /\ \A i \in 1..Len(served) : served[i].url = urls[i])
    /\ [][(served' # served /\ pc # "done") =>
             /\ Len(served) = Len(prices)
             /\ Len(served') = Len(served) + 1
             /\ SubSeq(served', 1, Len(served)) = served
             /\ served'[Len(served')].url = urls[Len(prices) + 1]
             /\ prices' = prices]_vars
    /\ [][(prices' # prices /\ pc # "done") =>
             /\ pc = "await"
             /\ served' = served
             /\ prices' = Append(prices,
                   _extract_price_vendor(page, served[Len(served)].doc).price)
             /\ sellers' = Append(sellers,
                   _extract_price_vendor(page, served[Len(served)].doc).vendor)]_vars

\* The third URL of the batch is awaited; the first two have returned.
C18_Witness ==
    /\ pc = "await"
    /\ Len(urls) = 3
    /\ Len(served) = 3
    /\ Len(prices) = 2
    /\ served[3].url = urls[3]

\* C19: the cursor cell is written at the end of a run only after
\* _write_results has written the batch; when _write_results raises, the
\* cursor is not advanced: the cell still reads as this run's start_row and
\* a read with the same batch size returns the same rows.
C19_WriteBeforeAdvance ==
    /\ [][cursorCell' # cursorCell \/ cursor_writes' # cursor_writes =>
             \/ pc = "reset"
             \/ pc = "advance" /\ writes = 1
             \/ pc = "done" /\ cursor_writes' = 0 /\ cursorCell' = cursorCell]_vars
    /\ [](pc = "advance" => writes = 1)
    /\ []((pc = "done" /\ error = "no_result_columns") =>
            /\ outcome = "failed"
            /\ writes = 0
            /\ next_row = 0
            /\ cursor_writes = reads - 1
            /\ urls # <<>>
            /\ ReadCursor(cursorCell) = start_row
            /\ _read_batch(sheet, cursorCell, batch_size) =
                  [raised |-> FALSE, error |-> "", start_row |-> start_row,
                   urls |-> urls])

\* The VENDEDOR or PRECIO VEI column is missing: the batch of rows 3 and 4
\* was extracted, the write raised and the cursor cell still holds 3.
C19_Witness ==
    /\ pc = "done"
    /\ error = "no_result_columns"
    /\ start_row = 3
    /\ Len(urls) = 2
    /\ Len(prices) = 2
    /\ cursorCell = <<"3">>

=============================================================================
